---- MODULE Spec2Model ----
(***************************************************************************)
(* UNI-T UT32x thermometer driver, protocol.c: reassembly of the serial    *)
(* byte stream tunnelled in 8-byte HID reports, packet validation and      *)
(* decoding, sample accounting and the transfer / event handlers.          *)
(*                                                                         *)
(* Bytes are their ASCII codes.  C offsets are 0-based: pkt[i] in the      *)
(* source is At(pkt, i) here.  The float returned by parse_temperature is  *)
(* kept as [nan, tenths]: the value is tenths/10 (the final "temp /= 10"   *)
(* is the fixed denominator, binary32 rounding of that quotient is not     *)
(* represented), NAN is nan = TRUE.                                        *)
(***************************************************************************)
EXTENDS Integers, Sequences, FiniteSets, TLC

VARIABLES
    packet,     \* devc->packet[0 .. devc->packet_len-1]
    limits,     \* devc->limits: [limit_samples, samples_read]
    status,     \* sdi->status
    xfer,       \* devc->xfer: "submitted" (in flight) or "freed"
    source,     \* TRUE while the USB event source is installed in the session
    he,         \* uni_t_ut32x_handle_events: "idle", "cmd" (in the stop command's
                \* bulk transfer), "cmd_ok" / "cmd_failed" (returned after it)
    sink,       \* what the session feed has received, in order
    cb,         \* what the last run of the transfer callback did
    fresh,      \* bytes copied off reports since the last decode-and-reset
    pkt0,       \* the packet the device is sending (split / decode scenarios)
    wire,       \* the bytes of pkt0 the device has not sent yet
    sepcut,     \* TRUE once a report before the last of pkt0 ended in CR LF
    quiet,      \* stream scenarios: reports in a row that triggered no decode
    garbage,    \* resynchronisation scenarios: garbage reports delivered
    valid       \* resynchronisation scenarios: valid packets begun

vars == <<packet, limits, status, xfer, source, he, sink, cb, fresh,
          pkt0, wire, sepcut, quiet, garbage, valid>>

(***************************************************************************)
(* Constants of the source.                                                *)
(***************************************************************************)
CR == 13
LF == 10
BLANK == 58
NEG == 59
PACKET_SIZE == 19
NibbleMask == 15
ReportLen == 8

SEP == <<CR, LF>>
Chr(d) == 48 + d            \* the ASCII digit d: '0' + d
FILL == 48 + 40             \* 'X', a byte with no meaning to the decoder

(***************************************************************************)
(* Bounds of the model.                                                    *)
(***************************************************************************)
MaxSamples == 2     \* reports are delivered while samples_read < MaxSamples
MaxLimit == 1       \* limit_samples is drawn from 0 .. MaxLimit (0: no limit)
MaxDeviations == 2  \* bytes of a buffer that differ from the good packet's
MaxDigit == 1       \* decode scenarios use the digits '0' .. '0'+MaxDigit and '9'
MaxGarbage == 3     \* resynchronisation scenarios: garbage reports before the packets
MaxPackets == 3     \* resynchronisation scenarios: valid packets after the garbage

At(s, i) == s[i + 1]
Min(a, b) == IF a < b THEN a ELSE b

(***************************************************************************)
(* parse_temperature                                                        *)
(***************************************************************************)
NAN == [nan |-> TRUE, tenths |-> 0]
Float(t) == [nan |-> FALSE, tenths |-> t]
isnan(t) == t.nan

\* Variants of the loop: one reads a blank as the digit 0, one lets a second
\* sign marker cancel the first.
RECURSIVE parse_loop_blank0(_, _, _, _)
parse_loop_blank0(buf, i, temp, negative) ==
    IF i >= 4
    THEN Float(IF negative THEN -temp ELSE temp)
    ELSE IF At(buf, i) = BLANK
    THEN parse_loop_blank0(buf, i + 1, temp * 10, negative)
    ELSE IF At(buf, i) = NEG
    THEN IF negative THEN NAN ELSE parse_loop_blank0(buf, i + 1, temp, TRUE)
    ELSE IF At(buf, i) < Chr(0) \/ At(buf, i) > Chr(9)
    THEN NAN
    ELSE parse_loop_blank0(buf, i + 1, temp * 10 + (At(buf, i) - Chr(0)), negative)

RECURSIVE parse_loop_toggle(_, _, _, _)
parse_loop_toggle(buf, i, temp, negative) ==
    IF i >= 4
    THEN Float(IF negative THEN -temp ELSE temp)
    ELSE IF At(buf, i) = BLANK
    THEN parse_loop_toggle(buf, i + 1, temp, negative)
    ELSE IF At(buf, i) = NEG
    THEN parse_loop_toggle(buf, i + 1, temp, ~negative)
    ELSE IF At(buf, i) < Chr(0) \/ At(buf, i) > Chr(9)
    THEN NAN
    ELSE parse_loop_toggle(buf, i + 1, temp * 10 + (At(buf, i) - Chr(0)), negative)

RECURSIVE parse_loop(_, _, _, _)
parse_loop(buf, i, temp, negative) ==
    IF i >= 4
    THEN Float(IF negative THEN -temp ELSE temp)
    ELSE IF At(buf, i) = BLANK
    THEN parse_loop(buf, i + 1, temp, negative)
    ELSE IF At(buf, i) = NEG
    THEN IF negative THEN NAN ELSE parse_loop(buf, i + 1, temp, TRUE)
    ELSE IF At(buf, i) < Chr(0) \/ At(buf, i) > Chr(9)
    THEN NAN
    ELSE parse_loop(buf, i + 1, temp * 10 + (At(buf, i) - Chr(0)), negative)

parse_temperature(buf) == parse_loop(buf, 0, 0, FALSE)

(***************************************************************************)
(* The software limits and the stop request, as process_packet uses them.  *)
(***************************************************************************)
sr_sw_limits_update_samples_read(l, n) ==
    [l EXCEPT !.samples_read = l.samples_read + n]

sr_sw_limits_check(l) ==
    l.limit_samples > 0 /\ l.samples_read >= l.limit_samples

(***************************************************************************)
(* process_packet.  The result names everything the call does: the records *)
(* sent to the session, the limits afterwards, whether the limiter was     *)
(* asked and whether sr_dev_acquisition_stop was called.                   *)
(***************************************************************************)
Unit(b) ==
    CASE b - Chr(0) = 1 -> "CELSIUS"
      [] b - Chr(0) = 2 -> "FAHRENHEIT"
      [] b - Chr(0) = 3 -> "KELVIN"
      [] OTHER -> "UNKNOWN"

\* A variant of the channel switch in which only '3' marks the value relative.
ChannelRelativeAt3(b) ==
    CASE b - Chr(0) = 0 -> [ok |-> TRUE, ch |-> 0, relative |-> FALSE]
      [] b - Chr(0) = 1 -> [ok |-> TRUE, ch |-> 1, relative |-> FALSE]
      [] b - Chr(0) = 2 -> [ok |-> TRUE, ch |-> 2, relative |-> FALSE]
      [] b - Chr(0) = 3 -> [ok |-> TRUE, ch |-> 2, relative |-> TRUE]
      [] OTHER -> [ok |-> FALSE, ch |-> 0, relative |-> FALSE]

Channel(b) ==
    CASE b - Chr(0) = 0 -> [ok |-> TRUE, ch |-> 0, relative |-> FALSE]
      [] b - Chr(0) = 1 -> [ok |-> TRUE, ch |-> 1, relative |-> FALSE]
      [] b - Chr(0) \in {2, 3} -> [ok |-> TRUE, ch |-> 2, relative |-> TRUE]
      [] OTHER -> [ok |-> FALSE, ch |-> 0, relative |-> FALSE]

\* A variant of Ignored that accounts for the frame it discards.
IgnoredButCounted(l) ==
    [send |-> <<>>, limits |-> sr_sw_limits_update_samples_read(l, 1),
     checked |-> TRUE, stop |-> sr_sw_limits_check(sr_sw_limits_update_samples_read(l, 1)),
     parsed |-> FALSE, temp |-> [nan |-> TRUE, tenths |-> 0]]

Ignored(l) ==
    [send |-> <<>>, limits |-> l, checked |-> FALSE, stop |-> FALSE,
     parsed |-> FALSE, temp |-> NAN]

\* Variants of the structural checks: a length check that accepts longer
\* frames, a marker check that forgets offset 16.
LengthAtLeast(pkt) == Len(pkt) >= PACKET_SIZE
MarkerAt8Only(pkt) == At(pkt, 8) = Chr(0)

LengthOk(pkt) == Len(pkt) = PACKET_SIZE
SeparatorOk(pkt) == At(pkt, 17) = SEP[1] /\ At(pkt, 18) = SEP[2]
MarkersOk(pkt) == At(pkt, 8) = Chr(0) /\ At(pkt, 16) = Chr(1)
NoMeasurement(pkt) ==
    At(pkt, 1) = NEG /\ At(pkt, 2) = NEG /\ At(pkt, 3) = NEG /\ At(pkt, 4) = NEG

Measure(pkt) ==
    LET temp == parse_temperature(SubSeq(pkt, 2, 5))
        is_valid == ~NoMeasurement(pkt) /\ ~isnan(temp)
        chan == Channel(At(pkt, 13))
    IN  [temp |-> temp,
         send |-> IF is_valid /\ chan.ok
                  THEN <<[type |-> "ANALOG", temp |-> temp.tenths,
                          unit |-> Unit(At(pkt, 5)), channel |-> chan.ch,
                          relative |-> chan.relative]>>
                  ELSE <<>>]

\* A variant of Account that asks the limiter before it counts the frame.
AccountCheckFirst(l) ==
    [limits |-> sr_sw_limits_update_samples_read(l, 1), checked |-> TRUE,
     stop |-> sr_sw_limits_check(l)]

Account(l) ==
    LET after == sr_sw_limits_update_samples_read(l, 1)
    IN  [limits |-> after, checked |-> TRUE, stop |-> sr_sw_limits_check(after)]

\* A variant that accounts only for the frames it sends a record for.
process_packet_counting_records(pkt, l) ==
    IF ~LengthOk(pkt) THEN Ignored(l)
    ELSE IF ~SeparatorOk(pkt) THEN Ignored(l)
    ELSE IF ~MarkersOk(pkt) THEN Ignored(l)
    ELSE LET m == Measure(pkt)
             a == IF m.send = <<>>
                  THEN [limits |-> l, checked |-> FALSE, stop |-> FALSE]
                  ELSE Account(l)
         IN  [send |-> m.send, limits |-> a.limits, checked |-> a.checked,
              stop |-> a.stop, parsed |-> TRUE, temp |-> m.temp]

process_packet(pkt, l) ==
    IF ~LengthOk(pkt) THEN Ignored(l)
    ELSE IF ~SeparatorOk(pkt) THEN Ignored(l)
    ELSE IF ~MarkersOk(pkt) THEN Ignored(l)
    ELSE LET m == Measure(pkt)
             a == Account(l)
         IN  [send |-> m.send, limits |-> a.limits, checked |-> a.checked,
              stop |-> a.stop, parsed |-> TRUE, temp |-> m.temp]

(***************************************************************************)
(* uni_t_ut32x_receive_transfer.  A transfer is [actual_length, buffer,    *)
(* beyond]: buffer is the 8-byte report and beyond the memory that follows *)
(* it, which memcpy reads when the length nibble exceeds the 7 payload     *)
(* bytes of the report (its content is whatever the build left there).     *)
(***************************************************************************)
\* Variants: a copy that starts at the head byte of the report, an overrun
\* test that is off by one (either way), an overrun branch that keeps the buffer.
memcpy_from_head(transfer, n) == SubSeq(transfer.buffer \o transfer.beyond, 1, n)
overrun_at_size(buf) == Len(buf) >= PACKET_SIZE
overrun_late(buf) == Len(buf) > PACKET_SIZE + 1
BufferOverrunKept(buf, l) ==
    [decoded |-> TRUE, frame |-> buf, pp |-> process_packet(buf, l), packet |-> buf]

hid_payload_len(buffer) == At(buffer, 0) % (NibbleMask + 1)

memcpy(transfer, n) == SubSeq(transfer.buffer \o transfer.beyond, 2, n + 1)

terminated(buf) ==
    /\ Len(buf) >= 2
    /\ At(buf, Len(buf) - 2) = SEP[1]
    /\ At(buf, Len(buf) - 1) = SEP[2]

overrun(buf) == Len(buf) > PACKET_SIZE

\* A variant of EndOfPacket that keeps the buffer.
EndOfPacketKept(buf, l) ==
    [decoded |-> TRUE, frame |-> buf, pp |-> process_packet(buf, l), packet |-> buf]

EndOfPacket(buf, l) ==
    [decoded |-> TRUE, frame |-> buf, pp |-> process_packet(buf, l), packet |-> <<>>]

BufferOverrun(buf, l) ==
    [decoded |-> TRUE, frame |-> buf, pp |-> process_packet(buf, l), packet |-> <<>>]

Waiting(buf, l) ==
    [decoded |-> FALSE, frame |-> <<>>, pp |-> Ignored(l), packet |-> buf]

Detect(buf, l) ==
    IF terminated(buf) THEN EndOfPacket(buf, l)
    ELSE IF overrun(buf) THEN BufferOverrun(buf, l)
    ELSE Waiting(buf, l)

\* A variant of Accumulate that takes the payload of a transfer of any length.
AccumulateAnyLength(transfer, pk, l) ==
    [len8 |-> transfer.actual_length = ReportLen,
     copied |-> memcpy(transfer, hid_payload_len(transfer.buffer)),
     appended |-> pk \o memcpy(transfer, hid_payload_len(transfer.buffer)),
     det |-> Detect(pk \o memcpy(transfer, hid_payload_len(transfer.buffer)), l)]

Accumulate(transfer, pk, l) ==
    IF transfer.actual_length = ReportLen
    THEN LET n == hid_payload_len(transfer.buffer)
             buf == pk \o memcpy(transfer, n)
         IN  [len8 |-> TRUE, copied |-> memcpy(transfer, n), appended |-> buf, det |-> Detect(buf, l)]
    ELSE [len8 |-> FALSE, copied |-> <<>>, appended |-> pk, det |-> Waiting(pk, l)]

sr_dev_acquisition_stop(st) == "STOPPING"

\* Variants of Resubmit: one that never looks at the status, one that leaves
\* the status alone when the submission fails.
ResubmitWhateverStatus(st, submit_ret) ==
    IF submit_ret # 0
    THEN [status |-> "STOPPING", xfer |-> "freed", did |-> "failed"]
    ELSE [status |-> st, xfer |-> "submitted", did |-> "submitted"]

ResubmitFailureKeepsStatus(st, submit_ret) ==
    IF st # "STOPPING"
    THEN IF submit_ret # 0
         THEN [status |-> st, xfer |-> "freed", did |-> "failed"]
         ELSE [status |-> st, xfer |-> "submitted", did |-> "submitted"]
    ELSE [status |-> st, xfer |-> "freed", did |-> "released"]

\* did: "submitted" (libusb_submit_transfer succeeded), "failed" (it failed
\* and the transfer was freed), "released" (freed without a submission).
Resubmit(st, submit_ret) ==
    IF st # "STOPPING"
    THEN IF submit_ret # 0
         THEN [status |-> "STOPPING", xfer |-> "freed", did |-> "failed"]
         ELSE [status |-> st, xfer |-> "submitted", did |-> "submitted"]
    ELSE [status |-> st, xfer |-> "freed", did |-> "released"]

Idle ==
    [ran |-> FALSE, len8 |-> FALSE, overread |-> FALSE, appended |-> <<>>, since |-> <<>>,
     decoded |-> FALSE, frame |-> <<>>, sent |-> 0, counted |-> 0,
     checked |-> FALSE, stop |-> FALSE, parsed |-> FALSE, temp |-> NAN,
     rearm |-> "none"]

uni_t_ut32x_receive_transfer(transfer, submit_ret) ==
    /\ xfer = "submitted"
    /\ \E a \in {Accumulate(transfer, packet, limits)} :
       \E r \in {Resubmit(IF a.det.pp.stop THEN sr_dev_acquisition_stop(status)
                          ELSE status, submit_ret)} :
          /\ packet' = a.det.packet
          /\ limits' = a.det.pp.limits
          /\ sink' = sink \o a.det.pp.send
          /\ status' = r.status
          /\ xfer' = r.xfer
          /\ fresh' = IF a.det.decoded THEN <<>> ELSE fresh \o a.copied
          /\ cb' = [ran |-> TRUE, len8 |-> a.len8, overread |-> Len(a.copied) > ReportLen - 1,
                    appended |-> a.appended, since |-> fresh \o a.copied,
                    decoded |-> a.det.decoded, frame |-> a.det.frame,
                    sent |-> Len(a.det.pp.send),
                    counted |-> a.det.pp.limits.samples_read - limits.samples_read,
                    checked |-> a.det.pp.checked, stop |-> a.det.pp.stop,
                    parsed |-> a.det.pp.parsed, temp |-> a.det.pp.temp,
                    rearm |-> r.did]
    /\ UNCHANGED <<source, he>>

(***************************************************************************)
(* uni_t_ut32x_handle_events, called by the session while the event source *)
(* is installed.  libusb runs the transfer callback from its event         *)
(* handling: at line 225, inside the synchronous bulk transfer of the stop *)
(* command at line 236, and from any other event handling on the shared    *)
(* context; the callback is therefore an action of its own, and the stop   *)
(* sequence is two steps, up to the start of the bulk transfer and from    *)
(* its completion.  The stop command may fail; the source ignores that.    *)
(***************************************************************************)
\* A variant that runs the stop sequence whatever the status.
handle_events_always_stops ==
    /\ source /\ he = "idle"
    /\ source' = FALSE
    /\ sink' = sink \o <<[type |-> "END"]>>
    /\ he' = "cmd"
    /\ UNCHANGED <<packet, limits, status, xfer, cb, fresh>>

uni_t_ut32x_handle_events ==
    /\ source /\ he = "idle"
    /\ IF status = "STOPPING"
       THEN /\ source' = FALSE
            /\ sink' = sink \o <<[type |-> "END"]>>
            /\ he' = "cmd"
       ELSE UNCHANGED <<source, sink, he>>
    /\ UNCHANGED <<packet, limits, status, xfer, cb, fresh>>

uni_t_ut32x_handle_events_return(ret, len) ==
    /\ he = "cmd"
    /\ he' = IF ret # 0 \/ len # 2 THEN "cmd_failed" ELSE "cmd_ok"
    /\ status' = "ACTIVE"
    /\ UNCHANGED <<packet, limits, xfer, source, sink, cb, fresh>>

\* The driver's dev_acquisition_stop, called for the application between two
\* runs of the event handler: it only marks the device as stopping.
dev_acquisition_stop ==
    /\ status = "ACTIVE" /\ he # "cmd"
    /\ status' = "STOPPING"
    /\ UNCHANGED <<packet, limits, xfer, source, he, sink, cb, fresh>>

(***************************************************************************)
(* The device.  Good(pos) is the byte of a good packet at offset pos of    *)
(* the buffer being filled, Alt(pos) the other bytes the device may put    *)
(* there: bytes that fail the decoder's checks, and CR and LF coming early *)
(* or late.  A buffer holds at most MaxDeviations bytes that are not the   *)
(* good byte of their offset.                                              *)
(***************************************************************************)
Good(pos) ==
    CASE pos = 1 -> Chr(0)
      [] pos = 2 -> Chr(2)
      [] pos = 3 -> Chr(5)
      [] pos = 4 -> Chr(6)
      [] pos = 5 -> Chr(1)
      [] pos = 8 -> Chr(0)
      [] pos = 13 -> Chr(0)
      [] pos = 16 -> Chr(1)
      [] pos = 17 -> CR
      [] pos = 18 -> LF
      [] OTHER -> FILL

Alt(pos) ==
    CASE pos = 6 -> {CR}
      [] pos = 7 -> {LF}
      [] pos = 13 -> {Chr(4)}
      [] pos = 16 -> {FILL}
      [] pos = 17 -> {FILL}
      [] pos = 19 -> {CR}
      [] pos = 20 -> {LF}
      [] OTHER -> {}

RECURSIVE Deviations(_, _)
Deviations(buf, pos) ==
    IF pos >= Len(buf) THEN 0
    ELSE (IF At(buf, pos) = Good(pos) THEN 0 ELSE 1) + Deviations(buf, pos + 1)

\* The buffers that extend those of S by n more bytes the device may send;
\* an element is <<buffer, number of its deviations>>.
Next1(e) ==
    {<<Append(e[1], Good(Len(e[1]))), e[2]>>}
    \cup (IF e[2] < MaxDeviations
          THEN {<<Append(e[1], b), e[2] + 1>> : b \in Alt(Len(e[1]))}
          ELSE {})

RECURSIVE Extend(_, _)
Extend(S, n) ==
    IF n = 0 THEN S ELSE Extend(UNION {Next1(e) : e \in S}, n - 1)

\* The chunks of n bytes the device may send when the buffer holds pk.
Chunks(pk, n) ==
    {SubSeq(e[1], Len(pk) + 1, Len(e[1])) : e \in Extend({<<pk, Deviations(pk, 0)>>}, n)}

RECURSIVE Pad(_, _)
Pad(s, n) == IF Len(s) >= n THEN s ELSE Pad(Append(s, 0), n)

\* The report carrying head byte h and the first 7 bytes of chunk c, and the
\* memory after it holding the rest of c.
Transfer(h, c) ==
    [actual_length |-> ReportLen,
     buffer |-> <<h>> \o Pad(SubSeq(c, 1, Min(Len(c), 7)), 7),
     beyond |-> Pad(SubSeq(c, 8, Len(c)), 8)]

\* The bridge chip sends 0xF0 + length as the first byte of a report.
ReportHead(n) == 16 * NibbleMask + n

\* A transfer that completed with len bytes instead of 8; the buffer holds a
\* head byte announcing a CR LF payload all the same.
ShortTransfer(len) ==
    [Transfer(ReportHead(2), SEP) EXCEPT !.actual_length = len]

\* libusb_submit_transfer returns 0 or an error; the model lets it fail after
\* the reports that carry at most one byte.
SubmitResults(n) == IF n <= 1 THEN {0, 1} ELSE {0}

Deliverable == limits.samples_read < MaxSamples

Report ==
    /\ Deliverable
    /\ \E n \in 0..NibbleMask :
          \E c \in Chunks(packet, n), ret \in SubmitResults(n) :
             uni_t_ut32x_receive_transfer(Transfer(ReportHead(n), c), ret)
    /\ UNCHANGED <<pkt0, wire, sepcut, quiet, garbage, valid>>

ShortReport ==
    /\ Deliverable
    /\ \E len \in {0, ReportLen - 1}, ret \in {0, 1} :
          uni_t_ut32x_receive_transfer(ShortTransfer(len), ret)
    /\ UNCHANGED <<pkt0, wire, sepcut, quiet, garbage, valid>>

HandleEvents ==
    /\ uni_t_ut32x_handle_events
    /\ UNCHANGED <<pkt0, wire, sepcut, quiet, garbage, valid>>

HandleEventsReturn ==
    /\ \E r \in {<<0, 2>>, <<0, 1>>, <<1, 0>>} :
          uni_t_ut32x_handle_events_return(r[1], r[2])
    /\ UNCHANGED <<pkt0, wire, sepcut, quiet, garbage, valid>>

RequestStop ==
    /\ dev_acquisition_stop
    /\ UNCHANGED <<pkt0, wire, sepcut, quiet, garbage, valid>>

Start(l) ==
    /\ packet = <<>>
    /\ limits = [limit_samples |-> l, samples_read |-> 0]
    /\ status = "ACTIVE"
    /\ xfer = "submitted"
    /\ source = TRUE
    /\ he = "idle"
    /\ sink = <<>>
    /\ cb = Idle
    /\ fresh = <<>>
    /\ quiet = 0
    /\ garbage = 0
    /\ valid = 0

Init ==
    /\ \E l \in 0..MaxLimit : Start(l)
    /\ pkt0 = <<>>
    /\ wire = <<>>
    /\ sepcut = FALSE

Next == Report \/ ShortReport \/ HandleEvents \/ HandleEventsReturn

Spec == Init /\ [][Next]_vars

(***************************************************************************)
(* Stop scenarios: the device sends good packets in reports of 0 to 7      *)
(* bytes, the application may ask for the stop at any time between two     *)
(* runs of the event handler, and resubmitting may fail after any report.  *)
(***************************************************************************)
RECURSIVE GoodChunk(_, _)
GoodChunk(pos, n) ==
    IF n = 0 THEN <<>> ELSE <<Good(pos)>> \o GoodChunk(pos + 1, n - 1)

GoodReport ==
    /\ Deliverable
    /\ \E n \in 0..(ReportLen - 1), ret \in {0, 1} :
          uni_t_ut32x_receive_transfer(
              Transfer(ReportHead(n), GoodChunk(Len(packet), n)), ret)
    /\ UNCHANGED <<pkt0, wire, sepcut, quiet, garbage, valid>>

NextStop ==
    GoodReport \/ ShortReport \/ HandleEvents \/ HandleEventsReturn \/ RequestStop

SpecStop == Init /\ [][NextStop]_vars

(***************************************************************************)
(* Decode scenarios: one call of process_packet on a frame pkt0.           *)
(* The frames are a good packet carrying every 4-byte field over           *)
(* FieldBytes, and the packets built from a few fields, every unit and     *)
(* channel byte of interest and every way of breaking the length, the      *)
(* separator and the markers.                                              *)
(***************************************************************************)
FieldBytes ==
    {Chr(d) : d \in 0..MaxDigit} \cup {Chr(9), BLANK, NEG, Chr(0) - 1, NEG + 1}

AllFields == {<<a, b, c, d>> : a \in FieldBytes, b \in FieldBytes,
                               c \in FieldBytes, d \in FieldBytes}

FewFields ==
    { <<Chr(0), Chr(2), Chr(5), Chr(6)>>,      \* "0256"
      <<NEG, Chr(0), Chr(7), Chr(5)>>,         \* ";075"
      <<NEG, NEG, Chr(1), Chr(2)>>,            \* ";;12"
      <<NEG, NEG, NEG, NEG>>,                  \* ";;;;"
      <<BLANK, BLANK, BLANK, BLANK>>,          \* "::::"
      <<Chr(0), Chr(2), Chr(0) - 1, Chr(6)>> } \* "02/6"

UnitBytes == {Chr(d) : d \in 0..4} \cup {FILL}
ChannelBytes == {Chr(d) : d \in 0..4} \cup {Chr(0) - 1}

\* The 19-byte packet with the given field, unit, channel, markers and separator.
MkPacket(f, u, ch, m8, m16, s17, s18) ==
    <<FILL>> \o f \o <<u, FILL, FILL, m8, FILL, FILL, FILL, FILL, ch,
                       FILL, FILL, m16, s17, s18>>

Resize(pkt, len) ==
    IF len <= Len(pkt) THEN SubSeq(pkt, 1, len) ELSE Pad(pkt, len)

DecodePackets ==
    {MkPacket(f, Chr(1), Chr(0), Chr(0), Chr(1), CR, LF) : f \in AllFields}
    \cup
    UNION {{Resize(MkPacket(f, u, ch, m[1], m[2], sp[1], sp[2]), len) :
               f \in FewFields, u \in UnitBytes, ch \in ChannelBytes} :
             m \in {Chr(0), FILL} \X {Chr(1), FILL},
             sp \in {CR, FILL} \X {LF, FILL},
             len \in {PACKET_SIZE - 1, PACKET_SIZE, PACKET_SIZE + 1}}

InitDecode ==
    /\ \E l \in 0..MaxLimit : Start(l)
    /\ pkt0 \in DecodePackets
    /\ wire = pkt0
    /\ sepcut = FALSE

ProcessPacket ==
    /\ wire # <<>>
    /\ \E pp \in {process_packet(pkt0, limits)} :
          /\ limits' = pp.limits
          /\ sink' = sink \o pp.send
          /\ status' = IF pp.stop THEN sr_dev_acquisition_stop(status) ELSE status
          /\ cb' = [Idle EXCEPT !.decoded = TRUE, !.frame = pkt0,
                                !.sent = Len(pp.send),
                                !.counted = pp.limits.samples_read - limits.samples_read,
                                !.checked = pp.checked, !.stop = pp.stop,
                                !.parsed = pp.parsed, !.temp = pp.temp]
    /\ wire' = <<>>
    /\ UNCHANGED <<packet, xfer, source, he, fresh, pkt0, sepcut, quiet, garbage, valid>>

NextDecode == ProcessPacket

SpecDecode == InitDecode /\ [][NextDecode]_vars

(***************************************************************************)
(* Split scenarios: the device sends one packet pkt0 that passes every     *)
(* check of the decoder, cut into reports of 1 to 7 payload bytes.  The    *)
(* bytes the decoder does not look at (offsets 0, 6-7, 9-12, 14-15) are *)
(* the good ones or, at up to MaxStray offsets, CR or LF.                  *)
(***************************************************************************)
MaxStray == 2

FreeOffsets == {0, 6, 7, 9, 10, 11, 12, 14, 15}

Strays(pkt) ==
    Cardinality({i \in FreeOffsets : i < Len(pkt) /\ At(pkt, i) # Good(i)})

SplitNext(pkt) ==
    {Append(pkt, Good(Len(pkt)))}
    \cup (IF Len(pkt) \in FreeOffsets
          THEN {x \in {Append(pkt, CR), Append(pkt, LF)} : Strays(x) <= MaxStray}
          ELSE {})

RECURSIVE SplitGrow(_, _)
SplitGrow(S, n) ==
    IF n = 0 THEN S ELSE SplitGrow(UNION {SplitNext(pkt) : pkt \in S}, n - 1)

SplitPackets == SplitGrow({<<>>}, PACKET_SIZE)

\* The bytes of pkt the device has sent when left bytes are still to come.
Delivered(pkt, left) == SubSeq(pkt, 1, Len(pkt) - left)
EndsInSep(s) == Len(s) >= 2 /\ s[Len(s) - 1] = CR /\ s[Len(s)] = LF

InitSplit ==
    /\ \E l \in 0..MaxLimit : Start(l)
    /\ pkt0 \in SplitPackets
    /\ wire = pkt0
    /\ sepcut = FALSE

SplitReport ==
    /\ wire # <<>>
    /\ \E k \in 1..Min(7, Len(wire)) :
          /\ uni_t_ut32x_receive_transfer(Transfer(ReportHead(k), SubSeq(wire, 1, k)), 0)
          /\ wire' = SubSeq(wire, k + 1, Len(wire))
          /\ sepcut' = (sepcut \/ (k < Len(wire) /\ EndsInSep(Delivered(pkt0, Len(wire) - k))))
    /\ UNCHANGED <<pkt0, quiet, garbage, valid>>

NextSplit == SplitReport

SpecSplit == InitSplit /\ [][NextSplit]_vars

(***************************************************************************)
(* Stream scenarios: every report carries 1 to 7 bytes.  quiet counts       *)
(* the reports delivered in a row without a decode-and-reset.              *)
(***************************************************************************)
StreamReport ==
    /\ Deliverable
    /\ \E n \in 1..(ReportLen - 1) :
          \E c \in Chunks(packet, n) :
             uni_t_ut32x_receive_transfer(Transfer(ReportHead(n), c), 0)
    /\ quiet' = IF cb'.decoded THEN 0 ELSE quiet + 1
    /\ UNCHANGED <<pkt0, wire, sepcut, garbage, valid>>

NextStream == StreamReport

SpecStream == Init /\ [][NextStream]_vars

(***************************************************************************)
(* Resynchronisation scenarios: up to MaxGarbage garbage reports of 0 to 7 *)
(* bytes (filler, CR, LF), then up to MaxPackets valid packets, each cut   *)
(* into reports of 1 to 7 bytes that do not straddle two packets.  valid   *)
(* is the number of the packet being sent, wire what is left of it.        *)
(***************************************************************************)
RECURSIVE Fill(_)
Fill(n) == IF n = 0 THEN <<>> ELSE <<FILL>> \o Fill(n - 1)

GarbageChunks ==
    {Fill(0), Fill(1), Fill(3), Fill(ReportLen - 1), <<CR>>, <<LF>>, SEP,
     Fill(ReportLen - 3) \o SEP}

ValidPackets ==
    {MkPacket(f, Chr(1), Chr(0), Chr(0), Chr(1), CR, LF) :
        f \in {<<Chr(0), Chr(2), Chr(5), Chr(6)>>, <<NEG, Chr(0), Chr(7), Chr(5)>>}}

GarbageReport ==
    /\ valid = 0 /\ garbage < MaxGarbage
    /\ \E c \in GarbageChunks :
          uni_t_ut32x_receive_transfer(Transfer(ReportHead(Len(c)), c), 0)
    /\ garbage' = garbage + 1
    /\ UNCHANGED <<pkt0, wire, sepcut, quiet, valid>>

ValidReport ==
    /\ \E w \in (IF wire # <<>> THEN {wire}
                 ELSE IF valid < MaxPackets THEN ValidPackets ELSE {}) :
          /\ \E k \in 1..Min(ReportLen - 1, Len(w)) :
                /\ uni_t_ut32x_receive_transfer(Transfer(ReportHead(k), SubSeq(w, 1, k)), 0)
                /\ wire' = SubSeq(w, k + 1, Len(w))
          /\ pkt0' = IF wire # <<>> THEN pkt0 ELSE w
          /\ valid' = IF wire # <<>> THEN valid ELSE valid + 1
    /\ UNCHANGED <<sepcut, quiet, garbage>>

NextResync == GarbageReport \/ ValidReport

SpecResync == Init /\ [][NextResync]_vars

(***************************************************************************)
(* Properties.  The predicates below are written from the statements they  *)
(* check, with 1-based indices, and use none of the operators above.       *)
(***************************************************************************)
IsTerminated(buf) ==
    Len(buf) >= 2 /\ buf[Len(buf) - 1] = 13 /\ buf[Len(buf)] = 10
IsOverrun(buf) == Len(buf) > 19
StructureOk(f) ==
    Len(f) = 19 /\ f[18] = 13 /\ f[19] = 10 /\ f[9] = 48 /\ f[17] = 49
FieldOf(f) == <<f[2], f[3], f[4], f[5]>>
Signs(fld) == Cardinality({i \in 1..4 : fld[i] = 59})
IsDigit(b) == b \in 48..57
WellFormed(fld) ==
    Signs(fld) <= 1 /\ \A i \in 1..4 : IsDigit(fld[i]) \/ fld[i] \in {58, 59}
RECURSIVE Pow10(_)
Pow10(n) == IF n = 0 THEN 1 ELSE 10 * Pow10(n - 1)
RECURSIVE SumTo(_, _)
SumTo(ds, i) ==
    IF i = 0 THEN 0 ELSE (ds[i] - 48) * Pow10(Len(ds) - i) + SumTo(ds, i - 1)
\* The decimal number spelled by the digits of the field, signed.
Tenths(fld) ==
    LET ds == SelectSeq(fld, IsDigit)
        mag == SumTo(ds, Len(ds))
    IN  IF Signs(fld) = 1 THEN 0 - mag ELSE mag

C2_SentIffValid ==
    cb.decoded =>
        /\ cb.sent \in {0, 1}
        /\ cb.sent = 1 <=>
              /\ StructureOk(cb.frame)
              /\ FieldOf(cb.frame) # <<59, 59, 59, 59>>
              /\ WellFormed(FieldOf(cb.frame))
              /\ cb.frame[14] \in 48..51

\* A record sent for a packet whose unit byte is no unit code.
C2_Witness ==
    /\ cb.decoded /\ cb.sent = 1 /\ Len(sink) = 1
    /\ cb.frame[6] = FILL /\ cb.frame[14] = 51

\* C3: a field of digits, blanks and at most one sign marker decodes to the
\* number its digits spell, in tenths, negated when the sign marker is there;
\* a field without any digit decodes to 0.
C3_FieldValue ==
    (cb.parsed /\ WellFormed(FieldOf(cb.frame))) =>
        /\ ~cb.temp.nan
        /\ cb.temp.tenths = Tenths(FieldOf(cb.frame))

\* The field "1;:9": a sign in the middle and a blank, decoded to -19 tenths.
C3_Witness ==
    /\ cb.parsed /\ FieldOf(cb.frame) = <<49, 59, 58, 57>>
    /\ cb.temp = [nan |-> FALSE, tenths |-> 0 - 19]
    /\ Len(sink) = 1 /\ sink[1].temp = 0 - 19

\* C10: a field with two or more sign markers, or with a byte that is no
\* digit, ':' or ';', decodes to the invalid result and the frame sends no
\* record.
C10_BadFieldInvalid ==
    (cb.decoded /\ Len(cb.frame) >= 5 /\ ~WellFormed(FieldOf(cb.frame))) =>
        /\ cb.sent = 0
        /\ cb.parsed => cb.temp.nan

\* The field "0;1;": two sign markers that are not adjacent.
C10_Witness ==
    /\ cb.parsed /\ FieldOf(cb.frame) = <<48, 59, 49, 59>>
    /\ cb.temp.nan /\ cb.sent = 0 /\ sink = <<>>

\* C4: after an append, the callback decodes and then empties the buffer if
\* and only if the buffer ends in CR LF or is longer than 19 bytes; the
\* decoder is given the whole buffer; otherwise the buffer stays as appended
\* and nothing is decoded, sent or counted.
C4_DetectorDecides ==
    (cb.ran /\ cb.len8) =>
        /\ cb.decoded <=> (IsTerminated(cb.appended) \/ IsOverrun(cb.appended))
        /\ cb.decoded => (cb.frame = cb.appended /\ packet = <<>>)
        /\ ~cb.decoded =>
              /\ packet = cb.appended
              /\ cb.sent = 0 /\ cb.counted = 0 /\ ~cb.checked

\* The overrun branch: a decode of more than 19 bytes that do not end in CR LF.
C4_Witness ==
    /\ cb.ran /\ cb.len8 /\ cb.decoded /\ packet = <<>>
    /\ IsOverrun(cb.appended) /\ ~IsTerminated(cb.appended)

\* C5: with reports of 0 to 7 payload bytes the buffer never holds more than
\* 19 + 7 = 26 bytes, right after an append included.
C5_BoundedBuffer ==
    (cb.ran /\ cb.len8 /\ ~cb.overread) =>
        (Len(cb.appended) <= 26 /\ Len(packet) <= 26)

\* The bound is met: 19 bytes waiting, 7 more appended without over-read.
C5_Witness ==
    /\ cb.ran /\ cb.len8 /\ ~cb.overread
    /\ Len(cb.appended) = 26 /\ cb.decoded /\ packet = <<>>

\* C6, as stated: whatever the first byte of a report, the callback appends
\* at most the 7 payload bytes of the report and the buffer never grows past
\* 26 bytes.
C6_CopiesAtMostPayload ==
    (cb.ran /\ cb.len8) => (~cb.overread /\ Len(cb.appended) <= 26)

\* C7: the frame given to the decoder is exactly the bytes copied off the
\* reports since the last decode-and-reset, in order; the buffer holds
\* nothing older.
C7_FrameIsFresh ==
    /\ (cb.ran /\ cb.decoded) => cb.frame = cb.since
    /\ packet = fresh

\* A second good packet decoded after the first: its frame is the 19 bytes
\* that came after the reset.
C7_Witness ==
    /\ cb.ran /\ cb.decoded /\ StructureOk(cb.frame) /\ cb.frame = cb.since
    /\ limits.samples_read = 2 /\ Len(sink) = 2

\* C9: a frame whose length is not 19 sends no record and leaves the buffer
\* empty, on the overrun path and when CR LF comes early.
C9_OtherLengthsDropped ==
    (cb.ran /\ cb.decoded /\ Len(cb.frame) # 19) =>
        (cb.sent = 0 /\ cb.counted = 0 /\ packet = <<>>)

\* An overrun frame whose first 19 bytes are a good packet.
C9_Witness ==
    /\ cb.ran /\ cb.decoded /\ Len(cb.frame) > 19 /\ ~IsTerminated(cb.frame)
    /\ StructureOk(SubSeq(cb.frame, 1, 19)) /\ cb.frame[14] = 48
    /\ cb.sent = 0 /\ packet = <<>>

Records == SelectSeq(sink, LAMBDA r : r.type = "ANALOG")
AllSent == pkt0 # <<>> /\ wire = <<>>

\* C8, as stated: a 19-byte packet that passes every decoder check, with any
\* bytes at the offsets the decoder ignores, split in any way into reports of
\* 1 to 7 payload bytes, yields exactly one record and an empty buffer.
C8_OneRecordPerPacket ==
    AllSent => (Len(Records) = 1 /\ packet = <<>>)

\* C8, amended: the same for the ways of splitting in which no report before
\* the last one ends right after a CR LF pair of the packet.
C8_OneRecordUnlessCutAtSeparator ==
    (AllSent /\ ~sepcut) => (Len(Records) = 1 /\ packet = <<>>)

\* A packet with CR LF at offsets 10-11, delivered in reports none of which
\* ends there.
C8_Witness ==
    /\ AllSent /\ ~sepcut
    /\ pkt0[11] = 13 /\ pkt0[12] = 10
    /\ Len(Records) = 1 /\ packet = <<>> /\ cb.decoded /\ cb.frame = pkt0

\* C11: a frame that passes the structural checks but carries no valid
\* measurement (the field ";;;;", a field that does not decode, a channel
\* byte outside '0'..'3') sends no record and still counts exactly one sample,
\* the limiter being asked with the new count.
C11_InvalidStillCounted ==
    (cb.decoded /\ StructureOk(cb.frame)
       /\ (\/ FieldOf(cb.frame) = <<59, 59, 59, 59>>
           \/ ~WellFormed(FieldOf(cb.frame))
           \/ cb.frame[14] \notin 48..51)) =>
        /\ cb.sent = 0 /\ sink = <<>>
        /\ cb.counted = 1 /\ limits.samples_read = 1
        /\ cb.checked
        /\ cb.stop <=> (limits.limit_samples = 1)

\* The empty memory slot ";;;;" with a sample limit of 1: counted, and the
\* limit is reached.
C11_Witness ==
    /\ cb.decoded /\ StructureOk(cb.frame)
    /\ FieldOf(cb.frame) = <<59, 59, 59, 59>> /\ cb.frame[14] = 48
    /\ cb.sent = 0 /\ cb.counted = 1 /\ cb.checked /\ cb.stop
    /\ status = "STOPPING"

\* C12: in a record that is sent, the unit is Celsius, Fahrenheit or Kelvin
\* for byte 5 = '1', '2', '3' and unknown for any other byte; the channel is
\* the first, second, third for byte 13 = '0', '1', '2' or '3'; the relative
\* flag is set exactly for byte 13 = '2' or '3'.
C12_UnitAndChannel ==
    (cb.decoded /\ cb.sent = 1) =>
        /\ Len(sink) = 1
        /\ sink[1].unit = (IF cb.frame[6] = 49 THEN "CELSIUS"
                           ELSE IF cb.frame[6] = 50 THEN "FAHRENHEIT"
                           ELSE IF cb.frame[6] = 51 THEN "KELVIN"
                           ELSE "UNKNOWN")
        /\ sink[1].channel = (IF cb.frame[14] = 48 THEN 0
                              ELSE IF cb.frame[14] = 49 THEN 1 ELSE 2)
        /\ sink[1].relative <=> (cb.frame[14] \in {50, 51})

\* A record with an unknown unit on the difference channel selected by '2'.
C12_Witness ==
    /\ cb.decoded /\ cb.sent = 1 /\ Len(sink) = 1
    /\ cb.frame[6] = 52 /\ cb.frame[14] = 50
    /\ sink[1].unit = "UNKNOWN" /\ sink[1].channel = 2 /\ sink[1].relative

\* C13: when a callback returns the buffer holds at most 19 bytes, and with
\* reports that each carry at least one byte no 20 reports in a row go by
\* without a decode-and-reset, CR LF or not.
C13_DecodeWithin20Reports ==
    /\ Len(packet) <= 19
    /\ quiet <= 19

\* Nineteen one-byte reports without a terminator: the next report decodes.
C13_Witness ==
    /\ quiet = 19 /\ Len(packet) = 19 /\ ~IsTerminated(packet)

\* C14: a callback that counts a frame adds 1 to the counter, then asks the
\* limiter, and requests the stop exactly when the limiter, asked with the new
\* count, says the limit is reached; a callback that counts nothing requests
\* no stop; no step lowers the counter or raises it by more than 1.
LimitReached(l) == l.limit_samples > 0 /\ l.samples_read >= l.limit_samples

C14_CountThenCheck ==
    [][LET d == limits'.samples_read - limits.samples_read
       IN  /\ d \in {0, 1}
           /\ d = 1 => /\ cb'.counted = 1 /\ cb'.checked
                       /\ cb'.stop <=> LimitReached(limits')
                       /\ cb'.stop => status' = "STOPPING"
           /\ cb'.counted = 0 => ~cb'.stop /\ ~cb'.checked]_vars

\* The frame that reaches the limit was counted and stopped the acquisition.
C14_Witness ==
    /\ cb.counted = 1 /\ cb.stop /\ status = "STOPPING"
    /\ limits.limit_samples > 0 /\ limits.samples_read = limits.limit_samples

\* A step of the transfer callback in the stop scenarios.
CallbackStep == GoodReport \/ ShortReport
\* The status the callback tests at line 189, after its own accounting.
StatusAtCheck == IF cb'.stop THEN "STOPPING" ELSE status

\* C15 (as stated): the callback tests the status after decoding; if it is
\* stopping, by this callback's own accounting too, the transfer is released
\* and not resubmitted, otherwise it is resubmitted; one of the two, never both.
C15_ReleasedOrResubmitted ==
    [][CallbackStep =>
          IF StatusAtCheck = "STOPPING"
          THEN cb'.rearm = "released" /\ xfer' = "freed"
          ELSE cb'.rearm = "submitted" /\ xfer' = "submitted"]_vars

\* C15 (amended): ... otherwise the resubmission is attempted, and when it
\* fails the status is set to stopping and the transfer is released as well.
C15_ReleasedOrResubmitAttempted ==
    [][CallbackStep =>
          IF StatusAtCheck = "STOPPING"
          THEN cb'.rearm = "released" /\ xfer' = "freed" /\ status' = "STOPPING"
          ELSE \/ cb'.rearm = "submitted" /\ xfer' = "submitted" /\ status' = status
               \/ cb'.rearm = "failed" /\ xfer' = "freed" /\ status' = "STOPPING"]_vars

\* A callback whose own accounting requested the stop released the transfer.
C15_Witness ==
    /\ cb.ran /\ cb.stop /\ cb.rearm = "released" /\ xfer = "freed"

EndCount == Cardinality({i \in 1..Len(sink) : sink[i].type = "END"})
StopSeen == status = "STOPPING" \/ he # "idle"

\* C16: once the status has been set to stopping with the transfer in flight,
\* no callback resubmits the transfer, and no callback sends a record after
\* the end-of-stream marker.
C16_StopIsFinal ==
    [][CallbackStep =>
          /\ StopSeen => xfer' = "freed"
          /\ EndCount > 0 => sink' = sink]_vars

\* C17: a transfer that completes with a length other than 8 leaves the
\* buffer, the counter and the feed as they were, decodes nothing and requests
\* no stop; the transfer is resubmitted or released as the status says.
C17_ShortTransferIgnored ==
    [][ShortReport =>
          /\ packet' = packet /\ limits' = limits /\ sink' = sink
          /\ ~cb'.decoded /\ ~cb'.parsed /\ ~cb'.stop /\ cb'.counted = 0
          /\ IF status = "STOPPING"
             THEN cb'.rearm = "released"
             ELSE cb'.rearm \in {"submitted", "failed"}]_vars

\* A short transfer arrived while a packet was being accumulated.
C17_Witness ==
    /\ cb.ran /\ ~cb.len8 /\ Len(packet) > 0 /\ xfer = "submitted"

C19_ReleasedOnce ==
    [][/\ xfer = "freed" => xfer' = "freed" /\ cb' = cb /\ ~CallbackStep
       /\ (xfer = "submitted" /\ xfer' = "freed") =>
             /\ CallbackStep
             /\ status' = "STOPPING"
             /\ \/ cb'.rearm = "released" /\ StatusAtCheck = "STOPPING"
                \/ cb'.rearm = "failed" /\ StatusAtCheck # "STOPPING"]_vars

\* A resubmission failed: the transfer is released and the device stopping.
C19_Witness ==
    /\ cb.rearm = "failed" /\ xfer = "freed" /\ status = "STOPPING" /\ ~cb.stop

====
